---- MODULE Spec2Model ----
(***************************************************************************)
(* A model of the dbase crate (src/src/header.rs, src/src/fields.rs): the  *)
(* field decoders, the two memo containers, the header parser and the     *)
(* record iterator.  Byte strings are sequences of integers 0..255; a Rust *)
(* String is the sequence of its UTF-8 bytes.                              *)
(*                                                                         *)
(* Three specifications share the variables:                               *)
(*   SpecDecode  - a field decoder applied to a byte slice                 *)
(*   SpecMemo    - a memo container opened on a sidecar file and queried   *)
(*   Spec        - Database::parse, into_iter and next on a table stream   *)
(***************************************************************************)
EXTENDS Integers, Sequences, FiniteSets, TLC

VARIABLES
    table,   \* the bytes of the .dbf stream handed to Database::parse
    tpos,    \* the read position of the table stream
    fs,      \* the sidecar files beside the table: [dbt, fpt], each Absent or bytes
    db,      \* the Database: NoDb, or [header, memo]
    iter,    \* the DatabaseRecordIterator: NoIter, or [record_size, fields]
    rets,    \* what the calls of next() returned so far, oldest first
    pc,      \* where the caller is: "start", "parsed", "iter", "failed", "panic"
    mfile,   \* the bytes of the sidecar file a memo container reads
    mpos,    \* the read position of the sidecar stream
    memo,    \* the memo container: NoMemo, or [kind, block_size, ...]
    op,      \* the operation called last: "none", a decoder's tag, "memo", ...
    data,    \* the byte slice handed to a decoder or to memo()
    res      \* the outcome of the last call: NoRes, or a Result

vars == <<table, tpos, fs, db, iter, rets, pc, mfile, mpos, memo, op, data, res>>
tableVars == <<table, tpos, fs, db, iter, rets, pc>>
memoVars == <<mfile, mpos, memo>>
callVars == <<op, data, res>>

\* ------------------------------------------------------------------------
\* Bounds of the model
\* ------------------------------------------------------------------------
MaxLen == 3      \* longest free-form byte slice handed to a decoder
MaxBody == 5     \* longest sidecar body after its 8-byte header
MaxRows == 2     \* most rows stored in a table stream

\* ------------------------------------------------------------------------
\* Results: Ok(value), Err(kind) and a panic (the process aborts)
\* ------------------------------------------------------------------------
Ok(v) == [kind |-> "Ok", val |-> v]
Err(e) == [kind |-> "Err", err |-> e]
Panic == [kind |-> "Panic"]
NoRes == [kind |-> "NoRes"]
IsOk(r) == r.kind = "Ok"

\* FieldValue
Text(s) == [tag |-> "Text", s |-> s]
Numeric(n) == [tag |-> "Numeric", n |-> n]
Integer(n) == [tag |-> "Integer", n |-> n]
Boolean(b) == [tag |-> "Boolean", b |-> b]
Date(y, m, d) == [tag |-> "Date", y |-> y, m |-> m, d |-> d]
DateTime(y, m, d, hh, mm, ss) ==
    [tag |-> "DateTime", y |-> y, m |-> m, d |-> d, hh |-> hh, mm |-> mm, ss |-> ss]
Unknown(b) == [tag |-> "Unknown", b |-> b]

\* ------------------------------------------------------------------------
\* Byte primitives
\* ------------------------------------------------------------------------
Drop(s, n) == SubSeq(s, n + 1, Len(s))
Take(s, n) == SubSeq(s, 1, n)

\* byteorder: read_u16::<LittleEndian>, read_u32::<LittleEndian>,
\* read_u32::<BigEndian> on a cursor that holds the whole word
LE16(b) == b[1] + 256 * b[2]
LE32(b) == b[1] + 256 * b[2] + 65536 * b[3] + 16777216 * b[4]
BE32(b) == b[4] + 256 * b[3] + 65536 * b[2] + 16777216 * b[1]
\* read_i32::<LittleEndian>: two's complement of the 32-bit word
LEi32(b) ==
    b[1] + 256 * b[2] + 65536 * b[3]
        + 16777216 * (IF b[4] >= 128 THEN b[4] - 256 ELSE b[4])

IsCont(b) == b >= 128 /\ b <= 191

\* The length of the well-formed UTF-8 sequence that starts at s[i], 0 when
\* there is none (what String::from_utf8 accepts).
Utf8CharLen(s, i) ==
    LET n == Len(s)
        b0 == s[i]
        c(k) == i + k <= n /\ IsCont(s[i + k])
    IN  IF b0 < 128 THEN 1
        ELSE IF b0 >= 194 /\ b0 <= 223 THEN (IF c(1) THEN 2 ELSE 0)
        ELSE IF b0 = 224
            THEN (IF c(1) /\ c(2) /\ s[i + 1] >= 160 THEN 3 ELSE 0)
        ELSE IF b0 = 237
            THEN (IF c(1) /\ c(2) /\ s[i + 1] <= 159 THEN 3 ELSE 0)
        ELSE IF b0 >= 225 /\ b0 <= 239 THEN (IF c(1) /\ c(2) THEN 3 ELSE 0)
        ELSE IF b0 = 240
            THEN (IF c(1) /\ c(2) /\ c(3) /\ s[i + 1] >= 144 THEN 4 ELSE 0)
        ELSE IF b0 = 244
            THEN (IF c(1) /\ c(2) /\ c(3) /\ s[i + 1] <= 143 THEN 4 ELSE 0)
        ELSE IF b0 >= 241 /\ b0 <= 243 THEN (IF c(1) /\ c(2) /\ c(3) THEN 4 ELSE 0)
        ELSE 0

RECURSIVE ValidUtf8From(_, _)
ValidUtf8From(s, i) ==
    IF i > Len(s) THEN TRUE
    ELSE LET k == Utf8CharLen(s, i)
         IN  k > 0 /\ ValidUtf8From(s, i + k)

\* String::from_utf8(bytes).is_ok()
ValidUtf8(s) == ValidUtf8From(s, 1)

\* str::is_char_boundary(i), i a 0-based byte index into a valid string
IsCharBoundary(s, i) == i = 0 \/ i = Len(s) \/ (i < Len(s) /\ ~IsCont(s[i + 1]))

\* The byte length of the White_Space character that starts at s[1], 0 when
\* s does not start with one (char::is_whitespace).
WsPrefixLen(s) ==
    LET n == Len(s)
    IN  IF n = 0 THEN 0
        ELSE IF s[1] = 32 \/ (s[1] >= 9 /\ s[1] <= 13) THEN 1
        ELSE IF n >= 2 /\ s[1] = 194 /\ s[2] \in {133, 160} THEN 2
        ELSE IF n >= 3 /\ s[1] = 225 /\ s[2] = 154 /\ s[3] = 128 THEN 3
        ELSE IF n >= 3 /\ s[1] = 226 /\ s[2] = 128
                /\ ((s[3] >= 128 /\ s[3] <= 138) \/ s[3] \in {168, 169, 175}) THEN 3
        ELSE IF n >= 3 /\ s[1] = 226 /\ s[2] = 129 /\ s[3] = 159 THEN 3
        ELSE IF n >= 3 /\ s[1] = 227 /\ s[2] = 128 /\ s[3] = 128 THEN 3
        ELSE 0

\* The byte length of the White_Space character that ends at the last byte.
WsSuffixLen(s) ==
    LET n == Len(s)
    IN  IF n = 0 THEN 0
        ELSE IF s[n] = 32 \/ (s[n] >= 9 /\ s[n] <= 13) THEN 1
        ELSE IF n >= 2 /\ WsPrefixLen(SubSeq(s, n - 1, n)) = 2 THEN 2
        ELSE IF n >= 3 /\ WsPrefixLen(SubSeq(s, n - 2, n)) = 3 THEN 3
        ELSE 0

RECURSIVE TrimStart(_)
TrimStart(s) ==
    LET k == WsPrefixLen(s) IN IF k = 0 THEN s ELSE TrimStart(Drop(s, k))

RECURSIVE TrimEnd(_)
TrimEnd(s) ==
    LET k == WsSuffixLen(s) IN IF k = 0 THEN s ELSE TrimEnd(Take(s, Len(s) - k))

\* str::trim
Trim(s) == TrimEnd(TrimStart(s))

IsDigit(b) == b >= 48 /\ b <= 57

RECURSIVE DigitsValue(_)
DigitsValue(s) ==
    IF Len(s) = 0 THEN 0 ELSE 10 * DigitsValue(Take(s, Len(s) - 1)) + (s[Len(s)] - 48)

AllDigits(s) == Len(s) > 0 /\ \A i \in 1..Len(s) : IsDigit(s[i])

\* <u32 as FromStr>::from_str: an optional '+', then one or more digits.
\* (The slices of the model stay far below 2^32, where it would overflow.)
ParseU32(s) ==
    LET digits == IF Len(s) > 0 /\ s[1] = 43 THEN Drop(s, 1) ELSE s
    IN  IF AllDigits(digits) THEN Ok(DigitsValue(digits)) ELSE Err("ParseIntError")

\* <i32 as FromStr>::from_str: an optional '+' or '-', then one or more digits.
ParseI32(s) ==
    LET signed == Len(s) > 0 /\ s[1] \in {43, 45}
        digits == IF signed THEN Drop(s, 1) ELSE s
    IN  IF ~AllDigits(digits) THEN Err("ParseIntError")
        ELSE IF signed /\ s[1] = 45 THEN Ok(0 - DigitsValue(digits))
        ELSE Ok(DigitsValue(digits))

\* ------------------------------------------------------------------------
\* chrono: Utc.ymd(y, m, d) panics unless the date exists
\* ------------------------------------------------------------------------
IsLeap(y) == y % 4 = 0 /\ (y % 100 # 0 \/ y % 400 = 0)

DaysInMonth(y, m) ==
    IF m \in {4, 6, 9, 11} THEN 30
    ELSE IF m = 2 THEN (IF IsLeap(y) THEN 29 ELSE 28)
    ELSE 31

\* NaiveDate::from_ymd_opt(y, m, d).is_some()
ValidYmd(y, m, d) ==
    /\ y >= -262144 /\ y <= 262143
    /\ m >= 1 /\ m <= 12
    /\ d >= 1 /\ d <= DaysInMonth(y, m)

\* ------------------------------------------------------------------------
\* Field decoders (fields.rs).  Each takes the database and the field's
\* bytes; only FieldTypeM is meant to use the database.
\* ------------------------------------------------------------------------
FieldTypeC_parse(database, bytes) ==
    IF ~ValidUtf8(bytes) THEN Err("InvalidData")
    ELSE Ok(Text(Trim(bytes)))

FieldTypeD_parse(database, bytes) ==
    IF ~ValidUtf8(bytes) THEN Err("InvalidData")
    ELSE LET field_content == Trim(bytes)
         IN  IF Len(field_content) # 8 THEN Err("InvalidData")
             \* String::split_off panics off a char boundary
             ELSE IF ~IsCharBoundary(field_content, 6) THEN Panic
             ELSE IF ~IsCharBoundary(Take(field_content, 6), 4) THEN Panic
             ELSE LET day == ParseU32(SubSeq(field_content, 7, 8))
                      month == ParseU32(SubSeq(field_content, 5, 6))
                      year == ParseI32(SubSeq(field_content, 1, 4))
                  IN  IF ~IsOk(day) THEN Err("InvalidData")
                      ELSE IF ~IsOk(month) THEN Err("InvalidData")
                      ELSE IF ~IsOk(year) THEN Err("InvalidData")
                      \* Utc.ymd panics on a date that does not exist
                      ELSE IF ~ValidYmd(year.val, month.val, day.val) THEN Panic
                      ELSE Ok(Date(year.val, month.val, day.val))

\* <f64 as FromStr>::from_str, for the slices the model feeds a numeric
\* column: an optional sign and decimal digits (no fraction, exponent,
\* "inf" or "nan" occurs in them).
ParseF64(s) ==
    LET r == ParseI32(s) IN IF IsOk(r) THEN r ELSE Err("ParseFloatError")

FieldTypeOldNumeric_parse(database, bytes) ==
    IF ~ValidUtf8(bytes) THEN Err("InvalidData")
    ELSE LET r == ParseF64(TrimStart(bytes))
         IN  IF IsOk(r) THEN Ok(Numeric(r.val)) ELSE Err("InvalidData")

FieldTypeL_parse(database, bytes) ==
    IF Len(bytes) = 0 THEN Err("InvalidData")
    ELSE IF bytes[1] \in {89, 121} THEN Ok(Boolean("true"))
    ELSE IF bytes[1] \in {78, 110} THEN Ok(Boolean("false"))
    ELSE Ok(Boolean("none"))

vec_u8_to_u32(in_val) ==
    IF Len(in_val) < 4 THEN Err("UnexpectedEof") ELSE Ok(LE32(in_val))

\* The f64 arithmetic is exact on these magnitudes, so floor(a / b) is the
\* integer quotient.  Utc.ymd panics on a date that does not exist.
to_julian_date(input) ==
    LET s1 == input + 68569
        n == (4 * s1) \div 146097
        s2 == s1 - ((146097 * n + 3) \div 4)
        i == (4000 * (s2 + 1)) \div 1461001
        s3 == s2 - ((1461 * i) \div 4) + 31
        q == (80 * s3) \div 2447
        d == s3 - ((2447 * q) \div 80)
        s4 == q \div 11
        m == q + 2 - 12 * s4
        j == 100 * (n - 49) + i + s4
    IN  \* a day this far out lies millions of years past chrono's last year
        IF input > 500000000 THEN Panic
        ELSE IF ValidYmd(j, m, d) THEN Ok([y |-> j, m |-> m, d |-> d]) ELSE Panic

FieldTypeT_parse(database, bytes) ==
    IF Len(bytes) = 0 THEN Err("InvalidData")          \* no first chunk
    ELSE IF Len(bytes) <= 4 THEN Err("InvalidData")    \* no second chunk
    ELSE LET date_word == vec_u8_to_u32(Take(bytes, 4))
             time_word == vec_u8_to_u32(SubSeq(bytes, 5, IF Len(bytes) < 8 THEN Len(bytes) ELSE 8))
         IN  IF ~IsOk(date_word) THEN date_word
             ELSE IF ~IsOk(time_word) THEN time_word
             ELSE LET date == to_julian_date(date_word.val)
                      hours == time_word.val \div 3600000
                      rest == time_word.val - hours * 3600000
                      minutes == rest \div 60000
                      seconds == (rest - minutes * 60000) \div 1000
                  IN  IF ~IsOk(date) THEN date
                      \* Date::and_hms panics on an hour past 23
                      ELSE IF hours >= 24 THEN Panic
                      ELSE Ok(DateTime(date.val.y, date.val.m, date.val.d,
                                       hours, minutes, seconds))

FieldTypeI_parse(database, bytes) ==
    IF Len(bytes) < 4 THEN Err("UnexpectedEof") ELSE Ok(Integer(LEi32(bytes)))

FieldTypeM_parse(database, bytes) == Ok(Unknown(bytes))

\* The dynamic dispatch field.field_type.parse(database, bytes)
FieldType_parse(tag, database, bytes) ==
    CASE tag = "C" -> FieldTypeC_parse(database, bytes)
      [] tag = "D" -> FieldTypeD_parse(database, bytes)
      [] tag = "N" -> FieldTypeOldNumeric_parse(database, bytes)
      [] tag = "L" -> FieldTypeL_parse(database, bytes)
      [] tag = "T" -> FieldTypeT_parse(database, bytes)
      [] tag = "I" -> FieldTypeI_parse(database, bytes)
      [] tag = "M" -> FieldTypeM_parse(database, bytes)

Tags == {"C", "D", "N", "L", "T", "I", "M"}

\* ------------------------------------------------------------------------
\* Memo containers (header.rs).  The file is the sidecar's bytes; the
\* calls return the Result and the position the stream is left at.
\* ------------------------------------------------------------------------
DefaultBlockSize == 512
Terminator == 26

Zeros(n) == [i \in 1..n |-> 0]
Min(a, b) == IF a < b THEN a ELSE b
Max(a, b) == IF a < b THEN b ELSE a

\* Read::read_exact(buf) of n bytes at pos: the bytes, or UnexpectedEof with
\* the stream left at its end
read_exact(file, pos, n) ==
    IF pos + n <= Len(file)
        THEN [res |-> Ok(SubSeq(file, pos + 1, pos + n)), pos |-> pos + n]
        ELSE [res |-> Err("UnexpectedEof"), pos |-> Max(pos, Len(file))]

FoxProMemoContainer_open(file) ==
    LET hdr == read_exact(file, 0, 8)
    IN  IF ~IsOk(hdr.res) THEN [res |-> hdr.res, pos |-> hdr.pos]
        ELSE LET buf == hdr.res.val
                 word == LE16(SubSeq(buf, 5, 6))
             IN  [res |-> Ok([kind |-> "fpt",
                              fragment_size |-> buf[8],
                              block_size |-> IF word = 0 THEN DefaultBlockSize ELSE word]),
                  pos |-> hdr.pos]

\* FoxProMemoContainer::memo reading the memo length little-endian
FoxProMemoContainer_memo_LittleEndianLength(self, file, bytes) ==
    IF Len(bytes) < 4 THEN [res |-> Err("UnexpectedEof"), pos |-> -1]
    ELSE LET id == LE32(bytes)
             buf_header == read_exact(file, self.fragment_size * id, 4)
             buf_length == read_exact(file, buf_header.pos, 4)
         IN  IF ~IsOk(buf_header.res) THEN buf_header
             ELSE IF ~IsOk(buf_length.res) THEN buf_length
             ELSE read_exact(file, buf_length.pos, LE32(buf_length.res.val))

FoxProMemoContainer_memo(self, file, bytes) ==
    IF Len(bytes) < 4 THEN [res |-> Err("UnexpectedEof"), pos |-> -1]
    ELSE LET id == LE32(bytes)
             buf_header == read_exact(file, self.fragment_size * id, 4)
             buf_length == read_exact(file, buf_header.pos, 4)
         IN  IF ~IsOk(buf_header.res) THEN buf_header
             ELSE IF ~IsOk(buf_length.res) THEN buf_length
             ELSE read_exact(file, buf_length.pos, BE32(buf_length.res.val))

DBaseMemoContainer_open(file) ==
    LET hdr == read_exact(file, 0, 8)
    IN  IF ~IsOk(hdr.res) THEN [res |-> hdr.res, pos |-> hdr.pos]
        ELSE LET buf == hdr.res.val
                 word == LE16(SubSeq(buf, 5, 6))
             IN  [res |-> Ok([kind |-> "dbt",
                              block_size |-> IF word = 0 THEN DefaultBlockSize ELSE word,
                              next_available |-> LE32(Take(buf, 4))]),
                  pos |-> hdr.pos]

\* The loop of DBaseMemoContainer::memo stopping at a short block only
ReadBlocks_UntilShortBlock(file, pos, block_size) ==
    LET remaining == Max(0, Len(file) - pos)
        full == remaining \div block_size
    IN  [bytes |-> SubSeq(file, pos + 1, pos + remaining)
                        \o Zeros((full + 1) * block_size - remaining),
         reads |-> full + 1,
         pos |-> pos + remaining]

\* The while !done loop of DBaseMemoContainer::memo: each pass reads into a
\* zeroed buffer of block_size bytes and appends the whole buffer.
RECURSIVE ReadBlocks(_, _, _)
ReadBlocks(file, pos, block_size) ==
    LET bytes_read == Min(block_size, Max(0, Len(file) - pos))
        bytes == SubSeq(file, pos + 1, pos + bytes_read) \o Zeros(block_size - bytes_read)
        done == bytes_read < block_size \/ \E i \in 1..Len(bytes) : bytes[i] = Terminator
    IN  IF done THEN [bytes |-> bytes, reads |-> 1, pos |-> pos + bytes_read]
        ELSE LET more == ReadBlocks(file, pos + bytes_read, block_size)
             IN  [bytes |-> bytes \o more.bytes, reads |-> 1 + more.reads, pos |-> more.pos]

\* memo_bytes.rsplitn(2, |n| *n == 0x1a): the part after the last
\* terminator, then the part before it; one part when there is none
rsplitn2(memo_bytes) ==
    LET hits == {i \in 1..Len(memo_bytes) : memo_bytes[i] = Terminator}
    IN  IF hits = {} THEN <<memo_bytes>>
        ELSE LET k == CHOOSE i \in hits : \A j \in hits : j <= i
             IN  <<Drop(memo_bytes, k), Take(memo_bytes, k - 1)>>

\* new_bytes.reverse(); new_bytes.pop(); then the parts are concatenated and
\* one trailing terminator is popped
StripTerminator(memo_bytes) ==
    LET new_bytes == rsplitn2(memo_bytes)
        output == IF Len(new_bytes) > 1 THEN new_bytes[2] ELSE new_bytes[1]
    IN  IF Len(output) > 0 /\ output[Len(output)] = Terminator
            THEN Take(output, Len(output) - 1)
            ELSE output

DBaseMemoContainer_memo(self, file, bytes) ==
    IF ~ValidUtf8(bytes) THEN [res |-> Err("InvalidData"), pos |-> -1]
    ELSE LET id == ParseU32(TrimStart(bytes))
         IN  IF ~IsOk(id) THEN [res |-> Err("InvalidData"), pos |-> -1]
             ELSE LET blocks == ReadBlocks(file, self.block_size * id.val, self.block_size)
                  IN  [res |-> Ok(StripTerminator(blocks.bytes)), pos |-> blocks.pos]

\* The dynamic dispatch container.memo(data); pos = -1 says the stream was
\* not touched
MemoContainer_memo(self, file, bytes) ==
    IF self.kind = "fpt" THEN FoxProMemoContainer_memo(self, file, bytes)
    ELSE DBaseMemoContainer_memo(self, file, bytes)

\* ------------------------------------------------------------------------
\* Header parser (header.rs)
\* ------------------------------------------------------------------------
NoDb == [state |-> "NoDb"]
NoIter == [state |-> "NoIter"]
NoMemo == [kind |-> "NoMemo"]
Absent == <<-1>>
NoFiles == [dbt |-> Absent, fpt |-> Absent]

\* Version::from_byte with the wildcard arm answering FoxBase
Version_from_byte_WildcardFoxBase(byte) ==
    CASE byte = 3 -> <<"dBASE3", FALSE>>
      [] byte = 48 -> <<"VisualFoxPro", FALSE, FALSE>>
      [] byte = 49 -> <<"VisualFoxPro", TRUE, FALSE>>
      [] byte = 50 -> <<"VisualFoxPro", FALSE, TRUE>>
      [] byte = 51 -> <<"VisualFoxPro", TRUE, TRUE>>
      [] byte = 67 -> <<"dBASE4Table", FALSE>>
      [] byte = 99 -> <<"dBASE4System", FALSE>>
      [] byte = 131 -> <<"dBASE3", TRUE>>
      [] byte = 139 -> <<"dBASE4System", TRUE>>
      [] byte = 203 -> <<"dBASE4Table", TRUE>>
      [] byte = 251 -> <<"FoxPro2", FALSE>>
      [] byte = 245 -> <<"FoxPro2", TRUE>>
      [] OTHER -> <<"FoxBase">>

Version_from_byte(byte) ==
    CASE byte = 2 -> <<"FoxBase">>
      [] byte = 3 -> <<"dBASE3", FALSE>>
      [] byte = 48 -> <<"VisualFoxPro", FALSE, FALSE>>
      [] byte = 49 -> <<"VisualFoxPro", TRUE, FALSE>>
      [] byte = 50 -> <<"VisualFoxPro", FALSE, TRUE>>
      [] byte = 51 -> <<"VisualFoxPro", TRUE, TRUE>>
      [] byte = 67 -> <<"dBASE4Table", FALSE>>
      [] byte = 99 -> <<"dBASE4System", FALSE>>
      [] byte = 131 -> <<"dBASE3", TRUE>>
      [] byte = 139 -> <<"dBASE4System", TRUE>>
      [] byte = 203 -> <<"dBASE4Table", TRUE>>
      [] byte = 251 -> <<"FoxPro2", FALSE>>
      [] byte = 245 -> <<"FoxPro2", TRUE>>
      [] OTHER -> <<"Unknown">>

\* parse_date is only ever handed three bytes; Utc.ymd panics on a date
\* that does not exist
parse_date(bytes) ==
    IF Len(bytes) # 3 THEN Err("InvalidData")
    ELSE LET year == bytes[1] + 1900
         IN  IF ValidYmd(year, bytes[2], bytes[3])
                 THEN Ok([y |-> year, m |-> bytes[2], d |-> bytes[3]])
                 ELSE Panic

\* e.replace("\0", "")
RemoveNul(s) == SelectSeq(s, LAMBDA b : b # 0)

\* The match on data[11]
FieldTypeOf(byte) ==
    CASE byte = 67 -> Ok("C")
      [] byte = 68 -> Ok("D")
      [] byte \in {70, 78} -> Ok("N")
      [] byte = 76 -> Ok("L")
      [] byte = 84 -> Ok("T")
      [] byte = 73 -> Ok("I")
      [] byte = 77 -> Ok("M")
      [] OTHER -> Err("InvalidData")

\* The closure parse_field of parse_fields, on one chunk of at most 32
\* bytes; indexing past the end of a short chunk panics
parse_field(chunk) ==
    IF Len(chunk) < 11 THEN Panic
    ELSE IF ~ValidUtf8(Take(chunk, 11)) THEN Err("InvalidInput")
    ELSE IF Len(chunk) < 12 THEN Panic
    ELSE IF ~IsOk(FieldTypeOf(chunk[12])) THEN FieldTypeOf(chunk[12])
    ELSE IF Len(chunk) < 18 THEN Panic
    ELSE Ok([name |-> RemoveNul(Trim(Take(chunk, 11))),
             field_type |-> FieldTypeOf(chunk[12]).val,
             data_address |-> LE32(SubSeq(chunk, 13, 16)),
             length |-> chunk[17],
             decimal_count |-> chunk[18]])

\* The while !done loop of parse_fields over buffer.chunks(32), from the
\* chunk that starts after `at` bytes
RECURSIVE parse_fields_from(_, _, _)
parse_fields_from(buffer, at, fields) ==
    IF at >= Len(buffer) THEN Ok(fields)
    ELSE IF buffer[at + 1] = 13 THEN Ok(fields)
    ELSE LET field == parse_field(SubSeq(buffer, at + 1, Min(at + 32, Len(buffer))))
         IN  IF ~IsOk(field) THEN field
             ELSE parse_fields_from(buffer, at + 32, Append(fields, field.val))

parse_fields(buffer) == parse_fields_from(buffer, 0, <<>>)

\* The sidecar discovery of Database::parse: <stem>.dbt before <stem>.fpt
OpenSidecar(files) ==
    IF files.dbt # Absent
        THEN [opened |-> DBaseMemoContainer_open(files.dbt), file |-> files.dbt]
    ELSE IF files.fpt # Absent
        THEN [opened |-> FoxProMemoContainer_open(files.fpt), file |-> files.fpt]
    ELSE [opened |-> [res |-> Ok(NoMemo), pos |-> 0], file |-> <<>>]

\* header_size - 32 + 1 on u16: a build with overflow checks panics when it
\* wraps, a build without them keeps the low 16 bits
FieldAreaSize(header_size, overflow_checks) ==
    IF header_size >= 32 THEN Ok(header_size - 32 + 1)
    ELSE IF overflow_checks THEN Panic
    ELSE Ok((header_size - 32 + 1) % 65536)

\* Database::parse: the Result, the position the table stream is left at,
\* and the sidecar file that was opened with its position
Database_parse(file, files, overflow_checks) ==
    LET byte_header == read_exact(file, 0, 12)
        failed(r, at) == [res |-> r, pos |-> at, side |-> <<>>, spos |-> 0]
    IN  IF ~IsOk(byte_header.res) THEN failed(byte_header.res, byte_header.pos)
        ELSE LET bh == byte_header.res.val
                 version == Version_from_byte(bh[1])
                 date_modified == parse_date(SubSeq(bh, 2, 4))
                 num_records == LE32(SubSeq(bh, 5, 8))
                 header_size == LE16(SubSeq(bh, 9, 10))
                 record_size == LE16(SubSeq(bh, 11, 12))
                 wasted_buffer == read_exact(file, 12, 20)
                 size == FieldAreaSize(header_size, overflow_checks)
             IN  IF ~IsOk(date_modified) THEN failed(date_modified, 12)
                 ELSE IF ~IsOk(wasted_buffer.res)
                     THEN failed(wasted_buffer.res, wasted_buffer.pos)
                 ELSE IF ~IsOk(size) THEN failed(size, 32)
                 ELSE LET field_buffer == read_exact(file, 32, size.val)
                      IN  IF ~IsOk(field_buffer.res)
                              THEN failed(field_buffer.res, field_buffer.pos)
                          ELSE LET fields == parse_fields(field_buffer.res.val)
                                   side == OpenSidecar(files)
                               IN  IF ~IsOk(fields) THEN failed(fields, field_buffer.pos)
                                   ELSE IF ~IsOk(side.opened.res)
                                       THEN failed(side.opened.res, field_buffer.pos)
                                   ELSE [res |-> Ok([header |-> [version |-> version,
                                                        last_update |-> date_modified.val,
                                                        record_count |-> num_records,
                                                        header_size |-> header_size,
                                                        record_size |-> record_size,
                                                        fields |-> fields.val],
                                                     memo |-> side.opened.res.val]),
                                         pos |-> field_buffer.pos,
                                         side |-> side.file,
                                         spos |-> side.opened.pos]

\* Database::get_memo
get_memo(database, file, bytes) ==
    IF database.memo = NoMemo THEN [res |-> <<"None">>, pos |-> -1]
    ELSE LET r == MemoContainer_memo(database.memo, file, bytes)
         IN  [res |-> IF IsOk(r.res) THEN <<"Some", r.res.val>> ELSE <<"None">>,
              pos |-> r.pos]

\* ------------------------------------------------------------------------
\* Record iterator (header.rs)
\* ------------------------------------------------------------------------
RECURSIVE SumLengths(_)
SumLengths(fields) ==
    IF Len(fields) = 0 THEN 0
    ELSE fields[1].length + SumLengths(Drop(fields, 1))

\* IntoIterator for Database
into_iter(database) ==
    [record_size |-> SumLengths(database.header.fields),
     fields |-> database.header.fields]

\* Database::read_bytes reading count bytes, without the byte of the marker
read_bytes_WithoutMarker(file, pos, count) == read_exact(file, pos, count)

\* Database::read_bytes(count) on the table stream at pos
read_bytes(file, pos, count) == read_exact(file, pos, count + 1)

\* fields.into_iter().collect::<HashMap<_, _>>(): a later pair replaces an
\* earlier one of the same name
RecordOf(pairs) ==
    [nm \in {pairs[i][1] : i \in 1..Len(pairs)} |->
        LET last == CHOOSE i \in 1..Len(pairs) :
                        /\ pairs[i][1] = nm
                        /\ \A j \in 1..Len(pairs) : pairs[j][1] = nm => j <= i
        IN  pairs[last][2]]

\* The fold of parse_row: each field drains its length from the front of
\* the row's bytes and is decoded; the first error ends the fold
RECURSIVE parse_row_from(_, _, _, _)
parse_row_from(database, fields, bytes, pairs) ==
    IF Len(fields) = 0 THEN Ok(RecordOf(pairs))
    ELSE LET field == fields[1]
             record_bytes == Take(bytes, field.length)
             value == FieldType_parse(field.field_type, database, record_bytes)
         IN  IF ~IsOk(value) THEN value
             ELSE parse_row_from(database, Drop(fields, 1), Drop(bytes, field.length),
                                 Append(pairs, <<field.name, value.val>>))

parse_row(self, database, bytes) == parse_row_from(database, self.fields, bytes, <<>>)

None == [kind |-> "None"]
Some(v) == [kind |-> "Some", val |-> v]

\* Iterator::next: what it returns (or that it panicked) and where the table
\* stream is left
next(self, database, file, pos) ==
    LET buf == read_bytes(file, pos, self.record_size)
    IN  IF ~IsOk(buf.res) THEN [ret |-> None, pos |-> buf.pos]
        ELSE LET row == parse_row(self, database, buf.res.val)
             IN  [ret |-> IF IsOk(row) THEN Some(row.val)
                          ELSE IF row = Panic THEN Panic
                          ELSE None,
                  pos |-> buf.pos]

\* ------------------------------------------------------------------------
\* Inputs of the decoder specification
\* ------------------------------------------------------------------------
RECURSIVE SeqsUpTo(_, _)
\* every sequence over S of length at most n
SeqsUpTo(S, n) ==
    IF n = 0 THEN {<<>>}
    ELSE LET shorter == SeqsUpTo(S, n - 1)
         IN  shorter \cup {Append(s, x) : s \in {t \in shorter : Len(t) = n - 1}, x \in S}

ToLE32(n) ==
    <<n % 256, (n \div 256) % 256, (n \div 65536) % 256, (n \div 16777216) % 256>>

\* space, NUL, 'a', tab and the two bytes of U+00E9 (each alone is not UTF-8)
SliceBytes == {32, 0, 97, 195, 169}
FreeSlices == SeqsUpTo(SliceBytes, MaxLen)

\* "2019" "2020" "1900" "0000" "-001" "+019" "20a9" and "201" + a lead byte
YearStrs ==
    { <<50, 48, 49, 57>>, <<50, 48, 50, 48>>, <<49, 57, 48, 48>>, <<48, 48, 48, 48>>,
      <<45, 48, 48, 49>>, <<43, 48, 49, 57>>, <<50, 48, 97, 57>>, <<50, 48, 49, 195>> }
\* "09" "02" "13" "00" "+2" "1a", a continuation byte + "9", "0" + a lead byte
MonthStrs ==
    { <<48, 57>>, <<48, 50>>, <<49, 51>>, <<48, 48>>, <<43, 50>>, <<49, 97>>,
      <<169, 57>>, <<48, 195>> }
\* "01" "29" "30" "31" "00" "+1", U+00E9, a continuation byte + "1"
DayStrs ==
    { <<48, 49>>, <<50, 57>>, <<51, 48>>, <<51, 49>>, <<48, 48>>, <<43, 49>>,
      <<195, 169>>, <<169, 49>> }
DateSlices ==
    {y \o m \o d : y \in YearStrs, m \in MonthStrs, d \in DayStrs}
        \cup { <<32>> \o <<50, 48, 49, 57, 48, 57, 48, 49>> \o <<32, 32>>,
               <<50, 48, 49, 57, 48, 57, 48>>,
               <<50, 48, 49, 57, 48, 57, 48, 49, 0>> }

\* Julian days: 2019-03-09, 2019-09-03, 2000-02-29, day 0, and one past chrono's years
JulianDays == {2458552, 2458730, 2451604, 0, 100000000}
\* 00:00:00, 01:00:00, 11:06:00, 23:59:59.999, and one millisecond past the day
DayMillis == {0, 3600000, 39960000, 86399999, 86400000}
DateTimeSlices ==
    {ToLE32(j) \o ToLE32(ms) : j \in JulianDays, ms \in DayMillis}
        \cup { Take(ToLE32(2458552) \o ToLE32(0), 6), ToLE32(2458552) \o ToLE32(0) \o <<7>> }

DecodeInputs == FreeSlices \cup DateSlices \cup DateTimeSlices

\* Database::new_at: no stream, no sidecar (the tests' decoder fixture)
new_at == [header |-> [record_count |-> 0, header_size |-> 0, record_size |-> 0,
                       fields |-> <<>>],
           memo |-> NoMemo]

InitDecode ==
    /\ table = <<>> /\ tpos = 0 /\ fs = NoFiles
    /\ db = new_at /\ iter = NoIter /\ rets = <<>> /\ pc = "decode"
    /\ mfile = <<>> /\ mpos = 0 /\ memo = NoMemo
    /\ op = "none" /\ res = NoRes
    /\ data \in DecodeInputs

\* The model's integers hold a 32-bit word only below 2^31.
WordsFit(bytes) == \A i \in {4, 8} : i <= Len(bytes) => bytes[i] < 128

\* o.parse(&mut db, data) for one of the decoders
Decode(tag) ==
    /\ pc = "decode"
    /\ tag = "T" => WordsFit(data)
    /\ op' = tag
    /\ res' = FieldType_parse(tag, db, data)
    /\ UNCHANGED <<tableVars, memoVars, data>>

NextDecode == \E tag \in Tags : Decode(tag)

SpecDecode == InitDecode /\ [][NextDecode]_vars

\* ------------------------------------------------------------------------
\* The memo specification: a container is opened on a sidecar file and
\* asked for memos
\* ------------------------------------------------------------------------
\* zero, one and the terminator (a 1 also serves as a memo length)
BodyBytes == {0, 1, Terminator}
\* (block size word, fragment size) of the sidecar header
SidecarHeads == {<<0, 2>>, <<2, 4>>, <<3, 4>>}
SidecarHeader(h) == <<0, 0, 0, 0, h[1], 0, 0, h[2]>>
SidecarInputs ==
    {SidecarHeader(h) \o body : h \in SidecarHeads, body \in SeqsUpTo(BodyBytes, MaxBody)}
        \cup {<<>>, <<0, 0, 0, 0, 2, 0, 0>>}

\* FoxPro references (little-endian ids 0, 1, 2), a short one, and dBASE
\* references "0", "4", " 3", "5" and "3 "
MemoRefs ==
    { <<0, 0, 0, 0>>, <<1, 0, 0, 0>>, <<2, 0, 0, 0>>, <<1, 0>>,
      <<48>>, <<52>>, <<32, 51>>, <<53>>, <<51, 32>> }

InitMemo ==
    /\ table = <<>> /\ tpos = 0 /\ fs = NoFiles
    /\ db = NoDb /\ iter = NoIter /\ rets = <<>> /\ pc = "closed"
    /\ mfile \in SidecarInputs /\ mpos = 0 /\ memo = NoMemo
    /\ op = "none" /\ data = <<>> /\ res = NoRes

OpenWith(opened) ==
    /\ pc = "closed"
    /\ op' = "open"
    /\ res' = opened.res
    /\ mpos' = opened.pos
    /\ memo' = IF IsOk(opened.res) THEN opened.res.val ELSE NoMemo
    /\ pc' = IF IsOk(opened.res) THEN "open" ELSE "failed"
    /\ UNCHANGED <<table, tpos, fs, db, iter, rets, mfile, data>>

OpenDBase == OpenWith(DBaseMemoContainer_open(mfile))

OpenFoxPro == OpenWith(FoxProMemoContainer_open(mfile))

\* container.memo(data).  Every call seeks to an absolute offset first, so
\* one call per run shows what any call does.
Memo(ref) ==
    /\ pc = "open"
    /\ LET r == MemoContainer_memo(memo, mfile, ref)
       IN  /\ res' = r.res
           /\ mpos' = IF r.pos = -1 THEN mpos ELSE r.pos
    /\ op' = "memo"
    /\ data' = ref
    /\ pc' = "asked"
    /\ UNCHANGED <<table, tpos, fs, db, iter, rets, mfile, memo>>

NextMemo ==
    \/ OpenDBase
    \/ OpenFoxPro
    \/ \E ref \in MemoRefs : Memo(ref)

SpecMemo == InitMemo /\ [][NextMemo]_vars

\* ------------------------------------------------------------------------
\* The table specification: Database::parse on a table stream, into_iter,
\* then calls of next
\* ------------------------------------------------------------------------
ToLE16(n) == <<n % 256, n \div 256>>

\* A 32-byte field descriptor: d = <<name, type byte, length>>
MkDescriptor(d) ==
    d[1] \o Zeros(11 - Len(d[1])) \o <<d[2]>> \o <<0, 0, 0, 0>> \o <<d[3], 0>> \o Zeros(14)

RECURSIVE MkDescriptors(_)
MkDescriptors(schema) ==
    IF Len(schema) = 0 THEN <<>>
    ELSE MkDescriptor(schema[1]) \o MkDescriptors(Drop(schema, 1))

RECURSIVE SchemaRowSize(_)
SchemaRowSize(schema) ==
    IF Len(schema) = 0 THEN 0 ELSE schema[1][3] + SchemaRowSize(Drop(schema, 1))

RECURSIVE Flatten(_)
Flatten(seqs) == IF Len(seqs) = 0 THEN <<>> ELSE seqs[1] \o Flatten(Drop(seqs, 1))

\* The 32-byte table header
MkHeader(version, date, n, header_size, record_size) ==
    <<version>> \o date \o ToLE32(n) \o ToLE16(header_size) \o ToLE16(record_size)
        \o Zeros(20)

\* A table file as section 6 lays it out: header, descriptors, 0x0D, rows
MkTable(version, date, n, schema, rows) ==
    MkHeader(version, date, n, 32 + 32 * Len(schema) + 1, 1 + SchemaRowSize(schema))
        \o MkDescriptors(schema) \o <<13>> \o Flatten(rows)

GoodDate == <<119, 9, 1>>

\* A: C(2), B: L(1)
SchemaCL == << <<(<<65>>), 67, 2>>, <<(<<66>>), 76, 1>> >>
\* D: D(8)
SchemaD == << <<(<<68>>), 68, 8>> >>
\* M: M(4)
SchemaM == << <<(<<77>>), 77, 4>> >>
\* A: C(1), A: C(2): one name twice
SchemaDup == << <<(<<65>>), 67, 1>>, <<(<<65>>), 67, 2>> >>

\* rows with their deletion marker (0x20 live, 0x2A deleted)
RowsCL == { <<32, 97, 32, 89>>, <<42, 32, 98, 110>>, <<32, 42, 97, 63>> }
\* "20190901", "2019aa01" (no number), "20191301" (no such month)
RowsD ==
    { <<32, 50, 48, 49, 57, 48, 57, 48, 49>>, <<42, 50, 48, 49, 57, 97, 97, 48, 49>>,
      <<32, 50, 48, 49, 57, 49, 51, 48, 49>> }
\* a FoxPro reference (id 1) and a dBASE reference ("   4")
RowsM == { <<32, 1, 0, 0, 0>>, <<32, 32, 32, 32, 52>> }
RowsDup == { <<32, 97, 98, 32>>, <<42, 32, 97, 97>> }

\* One sidecar serves both formats: block size 2, fragment size 4; as .fpt
\* memo 1 is "a", as .dbt memo 4 is the six bytes that start at offset 8
Sidecar == <<0, 0, 0, 0, 2, 0, 0, 4>> \o <<0, 0, 0, 1, 97>>
SidecarChoices ==
    { NoFiles, [dbt |-> Sidecar, fpt |-> Absent], [dbt |-> Absent, fpt |-> Sidecar],
      [dbt |-> Sidecar, fpt |-> Sidecar], [dbt |-> <<0, 0>>, fpt |-> Sidecar] }

\* Every stream made of at most MaxRows rows of the schema after a header
\* that advertises 0..MaxRows records: with the end-of-file byte, ending
\* with the last row, or one byte short
StreamsOf(schema, rows) ==
    { LET full == MkTable(3, GoodDate, n, schema, rs) \o <<26>>
      IN  Take(full, Len(full) - cut) :
        n \in 0..MaxRows, rs \in SeqsUpTo(rows, MaxRows), cut \in 0..2 }

WellFormedCases ==
    {[table |-> t, fs |-> NoFiles] :
        t \in StreamsOf(SchemaCL, RowsCL) \cup StreamsOf(SchemaD, RowsD)
                \cup StreamsOf(SchemaDup, RowsDup)}
        \cup {[table |-> t, fs |-> f] : t \in StreamsOf(SchemaM, RowsM), f \in SidecarChoices}

\* Streams with one or more faults in the header: a date that does not
\* exist, a type byte outside the set, a name that is not UTF-8, a header
\* size that disagrees with the descriptors, an unknown version byte
FaultyHeaders ==
    { MkHeader(v, date, 1, hs, 3) \o MkDescriptor(<<nm, ty, 2>>) \o <<13>>
            \o <<32, 97, 32>> \o <<26>> :
        v \in {3, 170},
        date \in {GoodDate, <<119, 13, 1>>, <<119, 2, 29>>},
        hs \in {65, 64, 33, 31, 0, 97},
        nm \in {<<65>>, <<255>>},
        ty \in {67, 88} }

\* A good one-row table cut off inside the header
ShortHeaders ==
    { Take(MkTable(3, GoodDate, 1, SchemaCL, << <<32, 97, 32, 89>> >>), k) :
        k \in {0, 5, 11, 12, 30, 32, 40, 64, 96, 97} }

\* One C(2) column under a header whose record_size is not 1 + 2, followed
\* by enough bytes for two reads
MismatchedSizes ==
    { MkHeader(3, GoodDate, 1, 65, rs) \o MkDescriptor(<<(<<65>>), 67, 2>>) \o <<13>>
            \o <<32, 97, 98, 32, 99, 100, 26>> :
        rs \in {2, 5} }

TableCases ==
    WellFormedCases
        \cup {[table |-> t, fs |-> NoFiles] :
                t \in FaultyHeaders \cup ShortHeaders \cup MismatchedSizes}

MaxCalls == MaxRows + 1

Init ==
    /\ \E c \in TableCases : table = c.table /\ fs = c.fs
    /\ tpos = 0 /\ db = NoDb /\ iter = NoIter /\ rets = <<>> /\ pc = "start"
    /\ mfile = <<>> /\ mpos = 0 /\ memo = NoMemo
    /\ op = "none" /\ data = <<>> /\ res = NoRes

\* dbase::open: Database::parse on the table stream
Parse ==
    /\ pc = "start"
    /\ \E overflow_checks \in BOOLEAN :
        LET p == Database_parse(table, fs, overflow_checks)
        IN  /\ res' = IF IsOk(p.res) THEN Ok("Database") ELSE p.res
            /\ db' = IF IsOk(p.res) THEN p.res.val ELSE NoDb
            /\ memo' = IF IsOk(p.res) THEN p.res.val.memo ELSE NoMemo
            /\ pc' = IF IsOk(p.res) THEN "parsed"
                     ELSE IF p.res.kind = "Panic" THEN "panic" ELSE "failed"
            /\ tpos' = p.pos
            /\ mfile' = p.side
            /\ mpos' = p.spos
    /\ op' = "parse"
    /\ UNCHANGED <<table, fs, iter, rets, data>>

\* db.into_iter()
IntoIter ==
    /\ pc = "parsed"
    /\ iter' = into_iter(db)
    /\ pc' = "iter"
    /\ op' = "into_iter"
    /\ UNCHANGED <<table, tpos, fs, db, rets, memoVars, data, res>>

\* record_iter.next(): a panic in a decoder aborts the program
NextRecord ==
    /\ pc = "iter"
    /\ Len(rets) < MaxCalls
    /\ LET r == next(iter, db, table, tpos)
       IN  /\ tpos' = r.pos
           /\ res' = r.ret
           /\ rets' = IF r.ret.kind = "Panic" THEN rets ELSE Append(rets, r.ret)
           /\ pc' = IF r.ret.kind = "Panic" THEN "panic" ELSE "iter"
    /\ op' = "next"
    /\ UNCHANGED <<table, fs, db, iter, memoVars, data>>

Next == Parse \/ IntoIter \/ NextRecord

Spec == Init /\ [][Next]_vars

\* ------------------------------------------------------------------------
\* Properties of the field decoders (checked under SpecDecode)
\* ------------------------------------------------------------------------

\* C8: whenever the character (C) decoder succeeds, the Text it returns has
\* no leading whitespace, no trailing whitespace and no NUL character.
C8_TextTrimmedNoNul ==
    (op = "C" /\ IsOk(res)) =>
        LET str == res.val.s
        IN  /\ res.val.tag = "Text"
            /\ WsPrefixLen(str) = 0
            /\ WsSuffixLen(str) = 0
            /\ \A i \in 1..Len(str) : str[i] # 0

\* Exactly eight ASCII digits YYYYMMDD that name a date with year >= 1
IsCalendarDate8(str) ==
    /\ Len(str) = 8
    /\ \A i \in 1..8 : IsDigit(str[i])
    /\ LET y == DigitsValue(SubSeq(str, 1, 4))
           m == DigitsValue(SubSeq(str, 5, 6))
           d == DigitsValue(SubSeq(str, 7, 8))
       IN  y >= 1 /\ m >= 1 /\ m <= 12 /\ d >= 1 /\ d <= DaysInMonth(y, m)

\* C9: the date (D) decoder is total with two outcomes: Date(y, m, d) when
\* the trimmed slice is eight ASCII digits YYYYMMDD naming a valid date with
\* y >= 1, and an InvalidData error for every other slice.
C9_DateOrInvalidData ==
    op = "D" =>
        IF ValidUtf8(data) /\ IsCalendarDate8(Trim(data))
            THEN LET str == Trim(data)
                 IN  res = Ok(Date(DigitsValue(SubSeq(str, 1, 4)),
                                   DigitsValue(SubSeq(str, 5, 6)),
                                   DigitsValue(SubSeq(str, 7, 8))))
            ELSE res = Err("InvalidData")

\* The Julian-day reduction as section 4.1 of the specification writes it
Section41(J) ==
    LET s1 == J + 68569
        n == (4 * s1) \div 146097
        s2 == s1 - ((146097 * n + 3) \div 4)
        i == (4000 * (s2 + 1)) \div 1461001
        s3 == s2 - ((1461 * i) \div 4) + 31
        q == (80 * s3) \div 2447
        s4 == q \div 11
    IN  [y |-> 100 * (n - 49) + i + s4, m |-> q + 2 - 12 * s4,
         d |-> s3 - ((2447 * q) \div 80)]

\* C10: on every 8-byte slice the datetime (T) decoder returns the DateTime
\* whose date is the Julian-day conversion of the first word and whose time
\* is h = ms div 3600000, m = (ms mod 3600000) div 60000,
\* s = (ms mod 60000) div 1000; when the converted date is not a calendar
\* date it returns an InvalidData error.
C10_DateTimeOrInvalidData ==
    (op = "T" /\ Len(data) = 8) =>
        LET J == LE32(SubSeq(data, 1, 4))
            ms == LE32(SubSeq(data, 5, 8))
            date == Section41(J)
        IN  IF J <= 500000000 /\ ValidYmd(date.y, date.m, date.d)
                THEN res = Ok(DateTime(date.y, date.m, date.d,
                                       ms \div 3600000,
                                       (ms % 3600000) \div 60000,
                                       (ms % 60000) \div 1000))
                ELSE res = Err("InvalidData")

\* ------------------------------------------------------------------------
\* Properties of the memo containers (checked under SpecMemo)
\* ------------------------------------------------------------------------

\* The bytes before the first terminator, all of them when there is none
UpToFirstTerminator(bytes) ==
    LET hits == {i \in 1..Len(bytes) : bytes[i] = Terminator}
    IN  IF hits = {} THEN bytes
        ELSE Take(bytes, (CHOOSE i \in hits : \A j \in hits : i <= j) - 1)

\* C5: dBASE memo resolution returns the concatenation of the blocks read
\* from offset block_size * id, cut at (and without) the first 0x1A byte, so
\* the payload holds no 0x1A and nothing that follows the first 0x1A.
C5_CutAtFirstTerminator ==
    (op = "memo" /\ memo.kind = "dbt" /\ IsOk(res)) =>
        LET id == ParseU32(TrimStart(data)).val
            blocks == ReadBlocks(mfile, memo.block_size * id, memo.block_size).bytes
        IN  /\ res.val = UpToFirstTerminator(blocks)
            /\ \A i \in 1..Len(res.val) : res.val[i] # Terminator

\* C6: FoxPro memo resolution of a 4-byte reference, with id its
\* little-endian value, base = (byte 7 of the sidecar) * id and n the
\* big-endian word at [base + 4, base + 8): the result is exactly the
\* sidecar's bytes [base + 8, base + 8 + n) when the sidecar holds them, and
\* no payload at all when it does not.
C6_FoxProPayload ==
    (op = "memo" /\ memo.kind = "fpt" /\ Len(data) = 4) =>
        LET id == LE32(data)
            base == mfile[8] * id
        IN  IF base + 8 <= Len(mfile)
                   /\ base + 8 + BE32(SubSeq(mfile, base + 5, base + 8)) <= Len(mfile)
                THEN res = Ok(SubSeq(mfile, base + 9,
                                     base + 8 + BE32(SubSeq(mfile, base + 5, base + 8))))
                ELSE ~IsOk(res)

\* A FoxPro memo away from the start of the file resolved to a payload that
\* is not empty
C6_Witness ==
    /\ op = "memo" /\ memo.kind = "fpt" /\ Len(data) = 4
    /\ LE32(data) > 0
    /\ IsOk(res) /\ Len(res.val) > 0

\* ------------------------------------------------------------------------
\* Properties of the header parser and the record iterator (checked under
\* Spec)
\* ------------------------------------------------------------------------
Fields == db.header.fields
\* H, L_j, R = 1 + L_1 + ... + L_k and the offset of field j inside a row
HeaderSize == db.header.header_size
FieldLen(j) == Fields[j].length
RowSize == 1 + SumLengths(Fields)
FieldOffset(j) == 1 + SumLengths(Take(Fields, j - 1))
\* The file bytes [H + r*R + 1 + L_1 + ... + L_(j-1), H + r*R + 1 + L_1 + ... + L_j)
FileSlice(r, j) ==
    SubSeq(table, HeaderSize + r * RowSize + FieldOffset(j) + 1,
                  HeaderSize + r * RowSize + FieldOffset(j) + FieldLen(j))
\* The j-th decoder applied to those bytes
Decoded(r, j) == FieldType_parse(Fields[j].field_type, db, FileSlice(r, j))

Calls == 1..Len(rets)
Yielded == {c \in Calls : rets[c].kind = "Some"}
\* The call of next() that yielded record number r (from 0)
CallOfRecord(r) ==
    CHOOSE c \in Yielded : Cardinality({b \in Yielded : b < c}) = r
\* No later descriptor carries the name of descriptor j
LastOfItsName(j) == \A i \in (j + 1)..Len(Fields) : Fields[i].name # Fields[j].name

\* C1: a memo (M) field decodes to Text(payload, trimmed) resolved against
\* the sidecar whenever the database has a sidecar container, and to
\* Unknown(raw reference bytes) only when it has none.
C1_MemoResolvedWhenSidecar ==
    \A c \in Yielded : \A j \in 1..Len(Fields) :
        Fields[j].field_type = "M" =>
            LET ref == FileSlice(c - 1, j)
                value == rets[c].val[Fields[j].name]
                got == get_memo(db, mfile, ref).res
            IN  IF db.memo = NoMemo THEN value = Unknown(ref)
                ELSE (got[1] = "Some" /\ ValidUtf8(got[2])) => value = Text(Trim(got[2]))

\* The stream holds every field of its complete rows decodable
AllRowsDecode ==
    \A r \in 0..MaxCalls : HeaderSize + (r + 1) * RowSize <= Len(table) =>
        \A j \in 1..Len(Fields) : IsOk(Decoded(r, j))

\* C2: for a stream whose header advertises n records, whose record_size is
\* 1 + the descriptor lengths and whose fields all decode, the iterator run
\* to its end yields exactly n records if and only if the stream holds all n
\* rows after the header (ending exactly at header_size + n * record_size
\* counts as holding them).
C2_CountIffNotTruncated ==
    (/\ pc = "iter"
     /\ Calls \ Yielded # {}
     /\ db.header.record_size = RowSize
     /\ AllRowsDecode) =>
        LET end == CHOOSE c \in Calls \ Yielded : \A b \in Calls \ Yielded : c <= b
            n == db.header.record_count
        IN  (end - 1 = n) <=> (Len(table) >= HeaderSize + n * RowSize)

\* C3 as first stated: record number r among the yielded ones (from 0) maps
\* the name of every descriptor j to the j-th decoder applied to the file
\* bytes [H + r*R + 1 + L_1 + ... + L_(j-1), H + r*R + 1 + L_1 + ... + L_j).
C3_AsStated ==
    \A r \in 0..(Cardinality(Yielded) - 1) : \A j \in 1..Len(Fields) :
        /\ IsOk(Decoded(r, j))
        /\ rets[CallOfRecord(r)].val[Fields[j].name] = Decoded(r, j).val

\* C3: the record returned by call number r + 1 of next() (r from 0; a row
\* whose decoding failed is consumed and counted) maps the name of every
\* descriptor j that no later descriptor repeats to the j-th decoder
\* applied to the file bytes [H + r*R + 1 + L_1 + ... + L_(j-1),
\* H + r*R + 1 + L_1 + ... + L_j), all of which the file holds; the
\* deletion marker at H + r*R lies in no field's bytes.
C3_FieldsFromRowOffsets ==
    \A c \in Yielded :
        /\ HeaderSize + c * RowSize <= Len(table)
        /\ DOMAIN rets[c].val = {Fields[j].name : j \in 1..Len(Fields)}
        /\ \A j \in 1..Len(Fields) : LastOfItsName(j) =>
            /\ IsOk(Decoded(c - 1, j))
            /\ rets[c].val[Fields[j].name] = Decoded(c - 1, j).val
            /\ FieldOffset(j) >= 1
            /\ FieldOffset(j) + FieldLen(j) <= RowSize

\* The second row, marked deleted, was yielded as a record of two fields
C3_Witness ==
    /\ pc = "iter"
    /\ 2 \in Yielded
    /\ Len(Fields) = 2
    /\ table[HeaderSize + RowSize + 1] = 42
    /\ Cardinality(DOMAIN rets[2].val) = 2

\* C4: once a call of next() has returned None, every later call returns
\* None too.
C4_NoneIsPermanent ==
    \A b \in Calls : \A c \in Calls :
        (b < c /\ rets[b].kind = "None") => rets[c].kind = "None"

\* The descriptor slots of the stream that come before the 0x0D terminator,
\* as offsets into the stream
DescriptorSlots ==
    LET hs == LE16(SubSeq(table, 9, 10))
        stop == Min(Len(table), 32 + hs - 32 + 1)
    IN  {at \in 32..(stop - 1) :
            /\ (at - 32) % 32 = 0
            /\ \A b \in 32..at : (b - 32) % 32 = 0 => table[b + 1] # 13}
HasBadDate == Len(table) >= 4 /\ ~ValidYmd(table[2] + 1900, table[3], table[4])
HasShortRead ==
    \/ Len(table) < 32
    \/ LE16(SubSeq(table, 9, 10)) >= 32 /\ Len(table) < LE16(SubSeq(table, 9, 10)) + 1
HasBadTag ==
    /\ Len(table) >= 32
    /\ \E at \in DescriptorSlots : at + 12 <= Len(table) /\ ~IsOk(FieldTypeOf(table[at + 12]))
HasBadName ==
    /\ Len(table) >= 32
    /\ \E at \in DescriptorSlots :
        at + 11 <= Len(table) /\ ~ValidUtf8(SubSeq(table, at + 1, at + 11))

\* C7: Database::parse returns an InvalidData error - it neither aborts nor
\* returns a Database - on every stream with an unrecognized type byte in a
\* descriptor before the terminator, a field name that is not UTF-8, fewer
\* bytes than the header needs, or a last-update triple that is no date.
C7_FaultsAreInvalidData ==
    (op = "parse" /\ (HasBadTag \/ HasBadName \/ HasShortRead \/ HasBadDate)) =>
        res = Err("InvalidData")

\* The stream with its byte 0 replaced by v
WithVersionByte(v) == <<v>> \o Drop(table, 1)

\* C11: the version byte never affects whether or what Database::parse
\* parses: the stream with any other byte 0, parsed by the same build, fails
\* when this parse failed and otherwise succeeds with the same last-update
\* date, record count, header size, record size and descriptors; and a byte
\* outside the thirteen signatures gives version = Unknown.
C11_VersionByteIsInert ==
    (pc # "start" /\ pc # "closed" /\ Len(table) >= 1) =>
        \A overflow_checks \in BOOLEAN :
            LET mine == Database_parse(table, fs, overflow_checks)
                same == IF IsOk(mine.res) THEN db = mine.res.val
                        ELSE db = NoDb /\ (op = "parse" => res = mine.res)
            IN  same =>
                \A v \in {0, 2, 3, 48, 49, 50, 51, 67, 99, 131, 139, 170, 203, 245, 251, 255} :
                    LET twin == Database_parse(WithVersionByte(v), fs, overflow_checks).res
                    IN  /\ IsOk(twin) = (db # NoDb)
                        /\ IsOk(twin) =>
                            /\ twin.val.header.last_update = db.header.last_update
                            /\ twin.val.header.record_count = db.header.record_count
                            /\ twin.val.header.header_size = db.header.header_size
                            /\ twin.val.header.record_size = db.header.record_size
                            /\ twin.val.header.fields = db.header.fields
                            /\ twin.val.memo = db.memo
                            /\ v \in {0, 170, 255} => twin.val.header.version = <<"Unknown">>
                        /\ (db # NoDb /\ table[1] \in {0, 170, 255}) =>
                            db.header.version = <<"Unknown">>

\* A stream whose byte 0 is 0xAA was parsed into a database of one field
C11_Witness ==
    /\ op = "parse" /\ IsOk(res)
    /\ table[1] = 170
    /\ db.header.version = <<"Unknown">>
    /\ Len(db.header.fields) = 1
    /\ db.header.record_count = 1

\* C12: the table stream moves only through the iterator's row read: a call
\* of next() that finds a full row (record_size bytes of a table of one or
\* more columns are left) advances the table stream by exactly the header's
\* record_size, whether or not the fields decode, and nothing else moves it
\* once the header is parsed.
C12_AdvancesByRecordSize ==
    [][ /\ (pc = "iter" /\ op' = "next"
                /\ Len(db.header.fields) >= 1
                /\ Len(table) - tpos >= db.header.record_size)
            => tpos' = tpos + db.header.record_size
        /\ (pc \in {"parsed", "iter"} /\ op' # "next") => tpos' = tpos
      ]_vars

\* The sidecar ends before the 8-byte memo header of the FoxPro reference or
\* before the memo_length bytes that follow it
FoxProShortRead ==
    LET base == memo.fragment_size * LE32(data)
    IN  \/ base + 8 > Len(mfile)
        \/ base + 8 + BE32(SubSeq(mfile, base + 5, base + 8)) > Len(mfile)
\* The sidecar holds no 0x1A at or after the offset of the dBASE reference
DBaseShortRead ==
    LET offset == memo.block_size * ParseU32(TrimStart(data)).val
    IN  \A i \in (offset + 1)..Len(mfile) : mfile[i] # Terminator
\* The bytes occur in the sidecar file, one after another
InSidecar(bytes) ==
    \E i \in 0..Len(mfile) :
        i + Len(bytes) <= Len(mfile) /\ SubSeq(mfile, i + 1, i + Len(bytes)) = bytes

\* C13: both memo containers answer a short read with an InvalidData error
\* (FoxPro: the sidecar ends before the memo header or the payload; dBASE:
\* it ends before a 0x1A is found), and no payload ever holds bytes that are
\* not in the sidecar file.
C13_ShortReadIsInvalidData ==
    op = "memo" =>
        /\ (memo.kind = "fpt" /\ Len(data) = 4 /\ FoxProShortRead)
                => res = Err("InvalidData")
        /\ (memo.kind = "dbt" /\ ValidUtf8(data) /\ IsOk(ParseU32(TrimStart(data)))
                /\ DBaseShortRead)
                => res = Err("InvalidData")
        /\ IsOk(res) => InSidecar(res.val)

\* Where the dBASE reference seeks to, and what the sidecar holds from there
MemoOffset == memo.block_size * ParseU32(TrimStart(data)).val
RemainingBytes == Max(0, Len(mfile) - MemoOffset)
\* Block k (from 1) after the offset is short or holds a 0x1A
StopsAt(k) ==
    \/ MemoOffset + k * memo.block_size > Len(mfile)
    \/ \E i \in (MemoOffset + (k - 1) * memo.block_size + 1)..(MemoOffset + k * memo.block_size) :
            mfile[i] = Terminator
\* ceil(remaining_bytes / block_size) + 1
ReadBound == (RemainingBytes + memo.block_size - 1) \div memo.block_size + 1

\* C14: dBASE memo resolution terminates: the block size is never 0, and for
\* every sidecar and every reference id the block-reading loop stops at the
\* first block that is short or holds 0x1A, after at most
\* ceil(remaining_bytes / block_size) + 1 reads, leaving the sidecar stream
\* just after the bytes of those blocks.
C14_ReadsBounded ==
    (op = "memo" /\ memo.kind = "dbt" /\ IsOk(res)) =>
        LET loop == ReadBlocks(mfile, MemoOffset, memo.block_size)
        IN  /\ memo.block_size > 0
            /\ loop.reads >= 1 /\ loop.reads <= ReadBound
            /\ StopsAt(loop.reads)
            /\ \A k \in 1..(loop.reads - 1) : ~StopsAt(k)
            /\ Len(loop.bytes) = loop.reads * memo.block_size
            /\ mpos = MemoOffset + Min(RemainingBytes, loop.reads * memo.block_size)

\* A memo whose second block is full and holds the terminator, with more of
\* the sidecar after it
C14_Witness ==
    /\ op = "memo" /\ memo.kind = "dbt" /\ IsOk(res)
    /\ MemoOffset >= 8
    /\ ~StopsAt(1) /\ StopsAt(2)
    /\ mpos = MemoOffset + 2 * memo.block_size
    /\ mpos < Len(mfile)

====
